---- MODULE Spec2Model ----
\* Model of server.js (tilda-uploader backend): process start-up, the shared
\* Google client handles, and the POST /upload handler with its calls to
\* Drive (files.create, permissions.create, files.get) and Sheets
\* (spreadsheets.values.append) and its temporary-file cleanup.
\*
\* The handler is an async function: it runs atomically between two awaits,
\* so there is one action per await point (the return of the awaited call,
\* followed by the synchronous code up to the next call or the response).
EXTENDS Integers, Sequences, FiniteSets, TLC

----------------------------------------------------------------------------
\* Bounds of the model

\* number of POST /upload requests the model lets arrive
NumReqs == 2
\* largest file count of a submission that is within the file-count limits
MaxN == 2
\* number of environment faults a run injects that the handler goes on
\* after: a rejected permissions.create, a failing unlink, a metadata answer
\* without view link (a rejected create, get or append ends the request and
\* is not counted)
MaxFaults == 1

Reqs == 1..NumReqs

----------------------------------------------------------------------------
\* Program constants

MiB == 1024 * 1024
\* multer limits.fileSize (per file)
FileSizeLimit == 100 * 1024 * 1024
\* multer limits.files
FilesLimit == 10
\* upload.array('images', 10)
ArrayMaxCount == 10
\* files.length > 10
HandlerMaxFiles == 10
\* totalSize > 100 * 1024 * 1024
TotalSizeLimit == 100 * 1024 * 1024

ErrNoFiles == "Hech qanday rasm yuklanmadi."
ErrTooMany == "Maksimal 10 ta rasm ruxsat etiladi."
ErrTooLarge == "Fayllarning umumiy hajmi 100MB dan oshdi."
\* (the source writes the apostrophe of "to'liq" as U+02BB)
ErrMissing == "Ism, familiya yoki telefon raqami to'liq emas."
ErrDefault == "Server xatosi"
\* message of the TypeError thrown by sheets.spreadsheets while sheets is undefined
ErrUndefinedSheets == "Cannot read properties of undefined (reading 'spreadsheets')"
\* message of the TypeError thrown by drive.files.create while drive is undefined
ErrUndefinedDrive == "Cannot read properties of undefined (reading 'files')"
DirectLinkPrefix == "https://drive.google.com/uc?id="
Separator == " | "

----------------------------------------------------------------------------
\* Text helpers (what the JavaScript built-ins compute)

Digit(d) ==
    CASE d = 0 -> "0" [] d = 1 -> "1" [] d = 2 -> "2" [] d = 3 -> "3"
      [] d = 4 -> "4" [] d = 5 -> "5" [] d = 6 -> "6" [] d = 7 -> "7"
      [] d = 8 -> "8" [] d = 9 -> "9"

\* Number.prototype.toString() of a non-negative integer
RECURSIVE toString(_)
toString(n) == IF n < 10 THEN Digit(n) ELSE toString(n \div 10) \o Digit(n % 10)

\* Array.prototype.join(sep) of an array of strings
RECURSIVE join(_, _)
join(arr, sep) ==
    IF Len(arr) = 0 THEN ""
    ELSE IF Len(arr) = 1 THEN arr[1]
    ELSE arr[1] \o sep \o join(Tail(arr), sep)

\* files.reduce((s,f)=>s+f.size,0)
RECURSIVE SumSizes(_)
SumSizes(files) ==
    IF Len(files) = 0 THEN 0 ELSE files[1].size + SumSizes(Tail(files))

----------------------------------------------------------------------------
\* Inputs

DRIVE_FOLDER_ID == "folder-1"
SHEETS_ID == "sheet-1"

\* process environment: DRIVE_FOLDER_ID / SHEETS_ID set or not, the
\* GOOGLE_SERVICE_ACCOUNT variable (absent, parseable JSON, unparseable), and
\* whether credentials.json exists next to server.js
Envs ==
    [folder : BOOLEAN, sheets : BOOLEAN,
     inline : {"absent", "valid", "invalid"}, credFile : BOOLEAN]

\* file sizes in bytes: small, large but within the per-file limit, and
\* over the per-file limit
Sizes == {1 * MiB, 60 * MiB, FileSizeLimit + 1}

NameOf(i) == "img" \o toString(i) \o ".png"

\* file counts of the submissions: 0..MaxN, and one over the limit of 10
FileCounts == (0..MaxN) \cup {FilesLimit + 1}

\* the files of one submission all have the same size; a submission over
\* the file-count limit has small files
SizeVectors(n) ==
    IF n > MaxN THEN {[i \in 1..n |-> 1 * MiB]} ELSE {[i \in 1..n |-> s] : s \in Sizes}

\* req.files as multer's disk storage builds it: one entry per file part, in
\* the order of the parts; path is the temporary file under tmp_uploads/
FilesOf(r, n, sz) ==
    [i \in 1..n |-> [originalname |-> NameOf(i), size |-> sz[i], path |-> <<r, i>>]]

\* req.body: a text field that was not sent is undefined, which the handler
\* cannot tell from the empty string (both are falsy); "" stands for both
FullBody == [firstName |-> "Ali", lastName |-> "Valiyev", phone |-> "+998901234567"]
Bodies ==
    {FullBody, [FullBody EXCEPT !.firstName = ""], [FullBody EXCEPT !.lastName = ""],
     [FullBody EXCEPT !.phone = ""]}

\* The submissions a request draws from. The first request draws from every
\* combination of file count, size and body; the others, which are there to
\* run alongside it, send one small file and a full body.
Submissions(r) ==
    IF r = 1
      THEN UNION {{[files |-> FilesOf(r, n, sz), body |-> body] :
                     sz \in SizeVectors(n), body \in Bodies} : n \in FileCounts}
      ELSE {[files |-> FilesOf(r, 1, <<1 * MiB>>), body |-> FullBody]}

\* new Date().toISOString()
Timestamps == {"2024-01-01T00:00:00.000Z"}

\* err.message of an error thrown by a Drive or Sheets call
ErrMsgs == {"", "Request failed with status code 403"}

\* the environment faults (rejected calls, failing unlinks, answers without
\* view link) hit the first request only; the other requests run alongside
\* it in a fault-free environment
MayFault(r) == r = 1

----------------------------------------------------------------------------
\* State

VARIABLES
    env,          \* process.env and the presence of credentials.json
    proc,         \* "boot" | "listening" | "exited"
    googleAuth,   \* "none" | "inline" | "file": the credential source in use
    auth,         \* googleAuth.getClient(): "none" | "pending" | "resolved" | "rejected"
    drive,        \* the shared Drive client: "undefined" | "client"
    sheets,       \* the shared Sheets client: "undefined" | "client"
    req,          \* per request: position in the handler and its locals
    fs,           \* paths of the temporary files that exist under tmp_uploads/
    unlinked,     \* paths on which a removal was attempted
    driveFiles,   \* the objects in Drive, in creation order
    sheetRows,    \* the rows of the spreadsheet, in append order
    faults        \* number of counted environment faults injected so far

vars == <<env, proc, googleAuth, auth, drive, sheets, req, fs, unlinked,
          driveFiles, sheetRows, faults>>

NoRes ==
    [sent |-> FALSE, by |-> "", status |-> 0, json |-> FALSE,
     success |-> FALSE, error |-> "", uploaded |-> <<>>]

\* res.status(st).json({ success:false, error: msg })
JsonFail(st, msg) ==
    [sent |-> TRUE, by |-> "handler", status |-> st, json |-> TRUE,
     success |-> FALSE, error |-> msg, uploaded |-> <<>>]

\* res.json({ success:true, uploaded })
JsonOk(uploaded) ==
    [sent |-> TRUE, by |-> "handler", status |-> 200, json |-> TRUE,
     success |-> TRUE, error |-> "", uploaded |-> uploaded]

\* Express's default error handler answering an error passed to next(err)
\* by the multer middleware: status 500 (a MulterError carries no status),
\* and a body that is not the handler's JSON object
FrameworkError ==
    [sent |-> TRUE, by |-> "express", status |-> 500, json |-> FALSE,
     success |-> FALSE, error |-> "", uploaded |-> <<>>]

IdleReq ==
    [pc |-> "idle", files |-> <<>>, body |-> [firstName |-> "", lastName |-> "", phone |-> ""],
     stored |-> {}, entered |-> FALSE, i |-> 0, fileId |-> "", uploaded |-> <<>>, row |-> <<>>,
     log |-> <<>>, res |-> NoRes]

Init ==
    /\ env \in Envs
    /\ proc = "boot"
    /\ googleAuth = "none"
    /\ auth = "none"
    /\ drive = "undefined"
    /\ sheets = "undefined"
    /\ req = [r \in Reqs |-> IdleReq]
    /\ fs = {}
    /\ unlinked = {}
    /\ driveFiles = <<>>
    /\ sheetRows = <<>>
    /\ faults = 0

----------------------------------------------------------------------------
\* Start-up (the module-level code of server.js)

\* Startup without the check of DRIVE_FOLDER_ID and SHEETS_ID
StartupNoConfigCheck ==
    /\ proc = "boot"
    /\ IF env.inline # "absent"
         THEN IF env.inline = "invalid"
                THEN /\ proc' = "exited"
                     /\ UNCHANGED <<googleAuth, auth>>
                ELSE /\ googleAuth' = "inline"
                     /\ auth' = "pending"
                     /\ proc' = "listening"
       ELSE IF ~env.credFile
         THEN /\ proc' = "exited"
              /\ UNCHANGED <<googleAuth, auth>>
         ELSE /\ googleAuth' = "file"
              /\ auth' = "pending"
              /\ proc' = "listening"
    /\ UNCHANGED <<env, drive, sheets, req, fs, unlinked, driveFiles, sheetRows, faults>>

\* The synchronous part of the script: configuration check, choice of the
\* credential source, googleAuth.getClient() started, app.listen().
Startup ==
    /\ proc = "boot"
    /\ IF ~env.folder \/ ~env.sheets
         THEN /\ proc' = "exited"
              /\ UNCHANGED <<googleAuth, auth>>
       ELSE IF env.inline # "absent"
         THEN IF env.inline = "invalid"
                THEN /\ proc' = "exited"
                     /\ UNCHANGED <<googleAuth, auth>>
                ELSE /\ googleAuth' = "inline"
                     /\ auth' = "pending"
                     /\ proc' = "listening"
       ELSE IF ~env.credFile
         THEN /\ proc' = "exited"
              /\ UNCHANGED <<googleAuth, auth>>
         ELSE /\ googleAuth' = "file"
              /\ auth' = "pending"
              /\ proc' = "listening"
    /\ UNCHANGED <<env, drive, sheets, req, fs, unlinked, driveFiles, sheetRows, faults>>

\* googleAuth.getClient() resolves: the .then callback sets both handles
ClientReady ==
    /\ proc = "listening"
    /\ auth = "pending"
    /\ auth' = "resolved"
    /\ drive' = "client"
    /\ sheets' = "client"
    /\ UNCHANGED <<env, proc, googleAuth, req, fs, unlinked, driveFiles, sheetRows, faults>>

\* googleAuth.getClient() rejects: the .catch callback ends the process
ClientFail ==
    /\ proc = "listening"
    /\ auth = "pending"
    /\ auth' = "rejected"
    /\ proc' = "exited"
    /\ UNCHANGED <<env, googleAuth, drive, sheets, req, fs, unlinked, driveFiles, sheetRows, faults>>

----------------------------------------------------------------------------
\* POST /upload: pure parts

PathsOf(files) == {files[k].path : k \in 1..Len(files)}

\* The multer middleware lets the request through to the handler: no more
\* than limits.files file parts, no more than maxCount parts in the field
\* 'images', no part over limits.fileSize
MulterAccepts(files) ==
    /\ Len(files) <= FilesLimit
    /\ Len(files) <= ArrayMaxCount
    /\ \A k \in 1..Len(files) : files[k].size <= FileSizeLimit

\* Validate without the check of the total size
ValidateNoSizeCheck(files, body) ==
    IF Len(files) = 0 THEN "NoFiles"
    ELSE IF Len(files) > HandlerMaxFiles THEN "TooManyFiles"
    ELSE IF body.firstName = "" \/ body.lastName = "" \/ body.phone = ""
      THEN "MissingFields"
    ELSE "ok"

\* The precondition checks of the handler, in the order of the code
Validate(files, body) ==
    IF Len(files) = 0 THEN "NoFiles"
    ELSE IF Len(files) > HandlerMaxFiles THEN "TooManyFiles"
    ELSE IF SumSizes(files) > TotalSizeLimit THEN "PayloadTooLarge"
    ELSE IF body.firstName = "" \/ body.lastName = "" \/ body.phone = ""
      THEN "MissingFields"
    ELSE "ok"

\* link: meta.data.webViewLink || ('https://drive.google.com/uc?id=' + meta.data.id)
LinkOf(meta) ==
    IF meta.webViewLink # "" THEN meta.webViewLink ELSE DirectLinkPrefix \o meta.id

\* uploaded.map(u=>u.name).join(' | ')
fileNames(uploaded) == join([k \in 1..Len(uploaded) |-> uploaded[k].name], Separator)

\* uploaded.map(u=>u.link).join(' | ')
fileLinks(uploaded) == join([k \in 1..Len(uploaded) |-> uploaded[k].link], Separator)

\* BuildRow with the names and the links in each other's cell
BuildRowCellsSwapped(now, body, uploaded) ==
    <<now, body.firstName, body.lastName, body.phone, toString(Len(uploaded)),
      fileLinks(uploaded), fileNames(uploaded)>>

\* const row = [ now, firstName, lastName, phone, uploaded.length.toString(),
\*               fileNames, fileLinks ]
BuildRow(now, body, uploaded) ==
    <<now, body.firstName, body.lastName, body.phone, toString(Len(uploaded)),
      fileNames(uploaded), fileLinks(uploaded)>>

\* err.message || 'Server xatosi'
ErrText(msg) == IF msg # "" THEN msg ELSE ErrDefault

\* the log of the external calls a request issued: op, index of the file
\* (0 for the append), outcome
Call(op, k) == [op |-> op, idx |-> k, out |-> "pending"]
Settle(log, out) == [log EXCEPT ![Len(log)].out = out]

----------------------------------------------------------------------------
\* POST /upload: pieces of the handler, each continuing from a request
\* record rq, the file-system state (f0, u0) and the fault count c0 reached
\* so far in the step

\* Catch with a compensating delete of the objects the request created
CatchWithRollback(r, rq, msg, f0, u0, c0) ==
    \E stuck \in SUBSET (PathsOf(rq.files) \cap f0) :
        /\ c0 + Cardinality(stuck) <= MaxFaults
        /\ MayFault(r) \/ stuck = {}
        /\ faults' = c0 + Cardinality(stuck)
        /\ fs' = f0 \ (PathsOf(rq.files) \ stuck)
        /\ unlinked' = u0 \cup PathsOf(rq.files)
        /\ req' = [req EXCEPT ![r] =
                     [rq EXCEPT !.pc = "done", !.res = JsonFail(500, ErrText(msg))]]
        /\ driveFiles' = SelectSeq(driveFiles, LAMBDA o : o.by # r)
        /\ sheetRows' = sheetRows

\* Catch that cleans up but sends no response
CatchNoResponse(r, rq, msg, f0, u0, c0) ==
    \E stuck \in SUBSET (PathsOf(rq.files) \cap f0) :
        /\ c0 + Cardinality(stuck) <= MaxFaults
        /\ MayFault(r) \/ stuck = {}
        /\ faults' = c0 + Cardinality(stuck)
        /\ fs' = f0 \ (PathsOf(rq.files) \ stuck)
        /\ unlinked' = u0 \cup PathsOf(rq.files)
        /\ req' = [req EXCEPT ![r] = [rq EXCEPT !.pc = "done"]]
        /\ driveFiles' = driveFiles
        /\ sheetRows' = sheetRows

\* catch(err): unlink every file of req.files (each failure swallowed; stuck
\* are the existing files whose removal fails), then respond 500; nothing
\* is called on Drive or Sheets
Catch(r, rq, msg, f0, u0, c0) ==
    \E stuck \in SUBSET (PathsOf(rq.files) \cap f0) :
        /\ c0 + Cardinality(stuck) <= MaxFaults
        /\ MayFault(r) \/ stuck = {}
        /\ faults' = c0 + Cardinality(stuck)
        /\ fs' = f0 \ (PathsOf(rq.files) \ stuck)
        /\ unlinked' = u0 \cup PathsOf(rq.files)
        /\ req' = [req EXCEPT ![r] =
                     [rq EXCEPT !.pc = "done", !.res = JsonFail(500, ErrText(msg))]]
        /\ driveFiles' = driveFiles
        /\ sheetRows' = sheetRows

\* top of a loop iteration: drive.files.create(...) for file rq.i; with drive
\* still undefined the property access throws a TypeError
IssueCreate(r, rq, f0, u0, c0) ==
    IF drive = "undefined"
      THEN Catch(r, rq, ErrUndefinedDrive, f0, u0, c0)
      ELSE /\ req' = [req EXCEPT ![r] =
                        [rq EXCEPT !.pc = "create", !.log = Append(@, Call("create", rq.i))]]
           /\ fs' = f0
           /\ unlinked' = u0
           /\ faults' = c0
           /\ UNCHANGED <<driveFiles, sheetRows>>

\* after the loop: build the row and call sheets.spreadsheets.values.append
IssueAppend(r, rq, f0, u0, c0) ==
    \E now \in Timestamps :
        IF sheets = "undefined"
          THEN Catch(r, rq, ErrUndefinedSheets, f0, u0, c0)
          ELSE /\ req' = [req EXCEPT ![r] =
                            [rq EXCEPT !.pc = "append",
                                       !.row = BuildRow(now, rq.body, rq.uploaded),
                                       !.log = Append(@, Call("append", 0))]]
               /\ fs' = f0
               /\ unlinked' = u0
               /\ faults' = c0
               /\ UNCHANGED <<driveFiles, sheetRows>>

----------------------------------------------------------------------------
\* POST /upload: actions

\* the message of each validation failure
ValidationError(v) ==
    CASE v = "NoFiles" -> ErrNoFiles
      [] v = "TooManyFiles" -> ErrTooMany
      [] v = "PayloadTooLarge" -> ErrTooLarge
      [] v = "MissingFields" -> ErrMissing

\* the validation exits that unlink the temporary files before responding
CleansUp(v) == v = "MissingFields"

\* the temporary files multer wrote for a request before it let it through
\* or rejected it: it stops storing at the limit of limits.files
StoredBy(files) == {files[k].path : k \in 1..(IF Len(files) < FilesLimit THEN Len(files) ELSE FilesLimit)}

\* A request arrives: multer stores the file parts; it either rejects the
\* request (removing what it stored; Express answers the error) or calls
\* the handler, which runs up to its first await or to a response.
Arrive(r) ==
    /\ proc = "listening"
    /\ req[r].pc = "idle"
    /\ \E sub \in Submissions(r) :
           LET files == sub.files
               body == sub.body
               rq0 == [req[r] EXCEPT !.files = files, !.body = body,
                                     !.stored = StoredBy(files)]
               rq == [rq0 EXCEPT !.entered = TRUE]
               f1 == fs \cup PathsOf(files)
               v == Validate(files, body)
           IN  IF ~MulterAccepts(files)
                 THEN /\ req' = [req EXCEPT ![r] =
                                   [rq0 EXCEPT !.pc = "done", !.res = FrameworkError]]
                      /\ fs' = fs
                      /\ unlinked' = unlinked \cup StoredBy(files)
                      /\ faults' = faults
                      /\ UNCHANGED <<driveFiles, sheetRows>>
               ELSE IF v # "ok"
                 THEN /\ req' = [req EXCEPT ![r] =
                                   [rq EXCEPT !.pc = "done",
                                              !.res = JsonFail(400, ValidationError(v))]]
                      /\ UNCHANGED <<driveFiles, sheetRows>>
                      /\ IF CleansUp(v)
                           THEN \E stuck \in SUBSET PathsOf(files) :
                                  /\ faults + Cardinality(stuck) <= MaxFaults
                                  /\ MayFault(r) \/ stuck = {}
                                  /\ faults' = faults + Cardinality(stuck)
                                  /\ fs' = f1 \ (PathsOf(files) \ stuck)
                                  /\ unlinked' = unlinked \cup PathsOf(files)
                           ELSE /\ fs' = f1
                                /\ unlinked' = unlinked
                                /\ faults' = faults
               ELSE IssueCreate(r, [rq EXCEPT !.i = 1], f1, unlinked, faults)
    /\ UNCHANGED <<env, proc, googleAuth, auth, drive, sheets>>

\* the identifier Drive gives to the next object it creates
NewId == "id" \o toString(Len(driveFiles) + 1)

\* webViewLink of an object, when Drive returns one
ViewLinkOf(id) == "https://drive.google.com/file/d/" \o id \o "/view"

\* drive.files.create resolves: the object exists; permissions.create is called
CreateOk(r) ==
    /\ proc = "listening"
    /\ req[r].pc = "create"
    /\ LET f == req[r].files[req[r].i]
       IN  /\ driveFiles' = Append(driveFiles,
                 [id |-> NewId, name |-> f.originalname, parent |-> DRIVE_FOLDER_ID,
                  anyoneReader |-> FALSE, by |-> r, idx |-> req[r].i])
           /\ req' = [req EXCEPT ![r].pc = "perm", ![r].fileId = NewId,
                        ![r].log = Append(Settle(@, "ok"), Call("perm", req[r].i))]
    /\ UNCHANGED <<env, proc, googleAuth, auth, drive, sheets, fs, unlinked, sheetRows,
                   faults>>

\* CreateFail with the rejection caught per file: the file is skipped and
\* the loop goes on
CreateFailSkipsFile(r) ==
    /\ proc = "listening"
    /\ req[r].pc = "create"
    /\ MayFault(r)
    /\ LET rq == [req[r] EXCEPT !.log = Settle(@, "fail")]
       IN  IF req[r].i < Len(req[r].files)
             THEN IssueCreate(r, [rq EXCEPT !.i = @ + 1], fs, unlinked, faults)
             ELSE IssueAppend(r, rq, fs, unlinked, faults)
    /\ UNCHANGED <<env, proc, googleAuth, auth, drive, sheets>>

\* drive.files.create rejects: the error reaches the catch block
CreateFail(r) ==
    /\ proc = "listening"
    /\ req[r].pc = "create"
    /\ MayFault(r)
    /\ \E msg \in ErrMsgs :
         Catch(r, [req[r] EXCEPT !.log = Settle(@, "fail")], msg, fs, unlinked, faults)
    /\ UNCHANGED <<env, proc, googleAuth, auth, drive, sheets>>

\* after the permission attempt, whatever its outcome: drive.files.get is called
AfterPerm(r, out) ==
    req' = [req EXCEPT ![r].pc = "get",
              ![r].log = Append(Settle(@, out), Call("get", req[r].i))]

\* drive.permissions.create resolves: anyone with the link can read the object
PermOk(r) ==
    /\ proc = "listening"
    /\ req[r].pc = "perm"
    /\ driveFiles' = [k \in 1..Len(driveFiles) |->
                        IF driveFiles[k].id = req[r].fileId
                          THEN [driveFiles[k] EXCEPT !.anyoneReader = TRUE]
                          ELSE driveFiles[k]]
    /\ AfterPerm(r, "ok")
    /\ UNCHANGED <<env, proc, googleAuth, auth, drive, sheets, fs, unlinked, sheetRows,
                   faults>>

\* PermFail without the inner try/catch: the rejection reaches the catch block
PermFailThrows(r) ==
    /\ proc = "listening"
    /\ req[r].pc = "perm"
    /\ faults < MaxFaults
    /\ MayFault(r)
    /\ \E msg \in ErrMsgs :
         Catch(r, [req[r] EXCEPT !.log = Settle(@, "fail")], msg, fs, unlinked, faults + 1)
    /\ UNCHANGED <<env, proc, googleAuth, auth, drive, sheets>>

\* drive.permissions.create rejects: the inner catch logs a warning
PermFail(r) ==
    /\ proc = "listening"
    /\ req[r].pc = "perm"
    /\ AfterPerm(r, "fail")
    /\ faults < MaxFaults
    /\ MayFault(r)
    /\ faults' = faults + 1
    /\ UNCHANGED <<env, proc, googleAuth, auth, drive, sheets, fs, unlinked,
                   driveFiles, sheetRows>>

\* DriveObject answering with the object created last, whatever the identifier
DriveObjectLatest(id) == driveFiles[Len(driveFiles)]

\* the object of Drive with a given identifier
DriveObject(id) == driveFiles[CHOOSE k \in 1..Len(driveFiles) : driveFiles[k].id = id]

\* Push putting the new entry first (unshift)
PushFront(uploaded, meta) ==
    <<[id |-> meta.id, name |-> meta.name, link |-> LinkOf(meta)]>> \o uploaded

\* uploaded.push({ id, name, link })
Push(uploaded, meta) ==
    Append(uploaded, [id |-> meta.id, name |-> meta.name, link |-> LinkOf(meta)])

\* GetOk without the unlink of the current file: the files are left to the
\* end of the request
GetOkNoUnlink(r) ==
    /\ proc = "listening"
    /\ req[r].pc = "get"
    /\ \E hasLink \in BOOLEAN :
         LET obj == DriveObject(req[r].fileId)
             meta == [id |-> obj.id, name |-> obj.name,
                      webViewLink |-> IF hasLink THEN ViewLinkOf(obj.id) ELSE ""]
             c1 == faults + (IF hasLink THEN 0 ELSE 1)
             rq == [req[r] EXCEPT !.uploaded = Push(@, meta), !.log = Settle(@, "ok")]
         IN  /\ c1 <= MaxFaults
             /\ MayFault(r) \/ c1 = faults
             /\ IF req[r].i < Len(req[r].files)
                   THEN IssueCreate(r, [rq EXCEPT !.i = @ + 1], fs, unlinked, c1)
                   ELSE IssueAppend(r, rq, fs, unlinked, c1)
    /\ UNCHANGED <<env, proc, googleAuth, auth, drive, sheets>>

\* GetOk with the unlink outside a try block: a failing unlink throws and the
\* request ends in the catch block
GetOkUnlinkThrows(r) ==
    /\ proc = "listening"
    /\ req[r].pc = "get"
    /\ \E hasLink \in BOOLEAN, unlinkOk \in BOOLEAN :
         LET obj == DriveObject(req[r].fileId)
             meta == [id |-> obj.id, name |-> obj.name,
                      webViewLink |-> IF hasLink THEN ViewLinkOf(obj.id) ELSE ""]
             path == req[r].files[req[r].i].path
             f1 == IF unlinkOk THEN fs \ {path} ELSE fs
             u1 == unlinked \cup {path}
             c1 == faults + (IF hasLink THEN 0 ELSE 1) + (IF unlinkOk THEN 0 ELSE 1)
             rq == [req[r] EXCEPT !.uploaded = Push(@, meta), !.log = Settle(@, "ok")]
         IN  /\ c1 <= MaxFaults
             /\ MayFault(r) \/ c1 = faults
             /\ IF ~unlinkOk
                   THEN Catch(r, rq, "EPERM: operation not permitted, unlink", fs, u1, faults)
                ELSE IF req[r].i < Len(req[r].files)
                   THEN IssueCreate(r, [rq EXCEPT !.i = @ + 1], f1, u1, c1)
                   ELSE IssueAppend(r, rq, f1, u1, c1)
    /\ UNCHANGED <<env, proc, googleAuth, auth, drive, sheets>>

\* drive.files.get resolves: the result is pushed, the temporary file of the
\* current file is unlinked (a failure is swallowed), and the loop goes on
\* with the next create or, after the last file, with the append
GetOk(r) ==
    /\ proc = "listening"
    /\ req[r].pc = "get"
    /\ \E hasLink \in BOOLEAN, unlinkOk \in BOOLEAN :
         LET obj == DriveObject(req[r].fileId)
             meta == [id |-> obj.id, name |-> obj.name,
                      webViewLink |-> IF hasLink THEN ViewLinkOf(obj.id) ELSE ""]
             path == req[r].files[req[r].i].path
             f1 == IF unlinkOk THEN fs \ {path} ELSE fs
             u1 == unlinked \cup {path}
             c1 == faults + (IF hasLink THEN 0 ELSE 1) + (IF unlinkOk THEN 0 ELSE 1)
             rq == [req[r] EXCEPT !.uploaded = Push(@, meta), !.log = Settle(@, "ok")]
         IN  /\ c1 <= MaxFaults
             /\ MayFault(r) \/ c1 = faults
             /\ IF req[r].i < Len(req[r].files)
                   THEN IssueCreate(r, [rq EXCEPT !.i = @ + 1], f1, u1, c1)
                   ELSE IssueAppend(r, rq, f1, u1, c1)
    /\ UNCHANGED <<env, proc, googleAuth, auth, drive, sheets>>

\* drive.files.get rejects: the error reaches the catch block
GetFail(r) ==
    /\ proc = "listening"
    /\ req[r].pc = "get"
    /\ MayFault(r)
    /\ \E msg \in ErrMsgs :
         Catch(r, [req[r] EXCEPT !.log = Settle(@, "fail")], msg, fs, unlinked, faults)
    /\ UNCHANGED <<env, proc, googleAuth, auth, drive, sheets>>

\* AppendOk answering with success although no row was written
AppendOkNoRow(r) ==
    /\ proc = "listening"
    /\ req[r].pc = "append"
    /\ req' = [req EXCEPT ![r].pc = "done", ![r].log = Settle(@, "ok"),
                 ![r].res = JsonOk(req[r].uploaded)]
    /\ UNCHANGED <<env, proc, googleAuth, auth, drive, sheets, fs, unlinked, driveFiles,
                   sheetRows, faults>>

\* sheets.spreadsheets.values.append resolves: the row is in the sheet and
\* the success response is sent
AppendOk(r) ==
    /\ proc = "listening"
    /\ req[r].pc = "append"
    /\ sheetRows' = Append(sheetRows, [values |-> req[r].row, by |-> r])
    /\ req' = [req EXCEPT ![r].pc = "done", ![r].log = Settle(@, "ok"),
                 ![r].res = JsonOk(req[r].uploaded)]
    /\ UNCHANGED <<env, proc, googleAuth, auth, drive, sheets, fs, unlinked, driveFiles,
                   faults>>

\* AppendFail with the rejection swallowed: the success response is sent
AppendFailSwallowed(r) ==
    /\ proc = "listening"
    /\ req[r].pc = "append"
    /\ MayFault(r)
    /\ req' = [req EXCEPT ![r].pc = "done", ![r].log = Settle(@, "fail"),
                 ![r].res = JsonOk(req[r].uploaded)]
    /\ UNCHANGED <<env, proc, googleAuth, auth, drive, sheets, fs, unlinked, driveFiles,
                   sheetRows, faults>>

\* sheets.spreadsheets.values.append rejects: the error reaches the catch block
AppendFail(r) ==
    /\ proc = "listening"
    /\ req[r].pc = "append"
    /\ MayFault(r)
    /\ \E msg \in ErrMsgs :
         Catch(r, [req[r] EXCEPT !.log = Settle(@, "fail")], msg, fs, unlinked, faults)
    /\ UNCHANGED <<env, proc, googleAuth, auth, drive, sheets>>

Next ==
    \/ Startup
    \/ ClientReady
    \/ ClientFail
    \/ \E r \in Reqs : Arrive(r)
    \/ \E r \in Reqs : CreateOk(r)
    \/ \E r \in Reqs : CreateFail(r)
    \/ \E r \in Reqs : PermOk(r)
    \/ \E r \in Reqs : PermFail(r)
    \/ \E r \in Reqs : GetOk(r)
    \/ \E r \in Reqs : GetFail(r)
    \/ \E r \in Reqs : AppendOk(r)
    \/ \E r \in Reqs : AppendFail(r)

Spec == Init /\ [][Next]_vars

\* The awaited call of request r settles: the promise of the googleapis call
\* the handler is waiting on resolves or rejects and the handler runs on
Settles(r) ==
    \/ CreateOk(r) \/ CreateFail(r)
    \/ PermOk(r) \/ PermFail(r)
    \/ GetOk(r) \/ GetFail(r)
    \/ AppendOk(r) \/ AppendFail(r)

\* The program under the assumption that every call a handler awaits
\* eventually resolves or rejects
LiveSpec == Spec /\ \A r \in Reqs : WF_vars(Settles(r))

----------------------------------------------------------------------------
\* Vocabulary of the properties

\* the handler of request r has sent its response
HandlerResponded(r) == req[r].entered /\ req[r].res.sent

\* request r issued no external call and left nothing in Drive or the sheet
NoExternalEffect(r) ==
    /\ req[r].log = <<>>
    /\ \A k \in 1..Len(driveFiles) : driveFiles[k].by # r
    /\ \A k \in 1..Len(sheetRows) : sheetRows[k].by # r

\* the submission of request r breaks a precondition of section 4.1
MissingField(r) ==
    req[r].body.firstName = "" \/ req[r].body.lastName = "" \/ req[r].body.phone = ""

TotalBytes(r) == SumSizes(req[r].files)

BreaksPrecondition(r) ==
    \/ Len(req[r].files) = 0
    \/ Len(req[r].files) > 10
    \/ TotalBytes(r) > 100 * MiB
    \/ MissingField(r)

\* the k-th create call of request r was rejected
CreateFailedAt(r, k) ==
    \E e \in 1..Len(req[r].log) :
        req[r].log[e] = [op |-> "create", idx |-> k, out |-> "fail"]

RowsBy(r) == {k \in 1..Len(sheetRows) : sheetRows[k].by = r}
ObjectsBy(r) == {k \in 1..Len(driveFiles) : driveFiles[k].by = r}

----------------------------------------------------------------------------
\* C1: when the handler of a request has sent its response, an unlink was
\* attempted on every temporary file of the request, on every exit path.
\* Fails on the code: the exit for a total size over 100 MiB (server.js line
\* 89) responds without unlinking.
C1_ReleasedOnEveryExit ==
    \A r \in Reqs :
        HandlerResponded(r) => PathsOf(req[r].files) \subseteq unlinked

\* C2: a request that breaks a precondition (0 files, more than 10 files,
\* total size over 100 MiB, a missing text field) never issues a Drive or
\* Sheets call and leaves no object and no row, at any time.
C2_NoCallOnValidationFailure ==
    \A r \in Reqs :
        (req[r].pc # "idle" /\ BreaksPrecondition(r)) => NoExternalEffect(r)

\* a request whose files are too large in total was answered 400 while the
\* Drive client was ready to take calls
C2_Witness ==
    \E r \in Reqs :
        /\ HandlerResponded(r)
        /\ drive = "client"
        /\ TotalBytes(r) > 100 * MiB
        /\ ~MissingField(r)
        /\ req[r].res.status = 400

\* C3: a submission missing firstName, lastName or phone gets a failure
\* response, and every temporary file stored for it was unlinked before the
\* response, whatever its file count and total size.
\* Fails on the code for a total size over 100 MiB (the defect of C1).
C3_MissingFieldsReleased ==
    \A r \in Reqs :
        (req[r].res.sent /\ MissingField(r)) =>
            /\ ~req[r].res.success
            /\ req[r].stored \subseteq unlinked

\* C4: if the create call of the k-th file is rejected, the request ends with
\* a 500 failure response, no call is issued for a later file, no append is
\* issued and no row added, and the temporary files of files 1..k-1 were
\* unlinked.
C4_CreateFailureAborts ==
    \A r \in Reqs : \A k \in 1..Len(req[r].files) :
        CreateFailedAt(r, k) =>
            /\ req[r].pc = "done"
            /\ req[r].res.sent /\ req[r].res.json
            /\ ~req[r].res.success /\ req[r].res.status = 500
            /\ \A e \in 1..Len(req[r].log) :
                   req[r].log[e].op # "append" /\ req[r].log[e].idx <= k
            /\ \A o \in ObjectsBy(r) : driveFiles[o].idx < k
            /\ RowsBy(r) = {}
            /\ \A j \in 1..(k - 1) : req[r].files[j].path \in unlinked

\* the create call of the second of two files was rejected
C4_Witness ==
    \E r \in Reqs : Len(req[r].files) = 2 /\ CreateFailedAt(r, 2)

\* C5: no request is processed while the shared client handles are not
\* initialized, and none is accepted if their initialization fails.
\* Fails on the code: app.listen() runs before getClient() settles.
C5_InitBeforeServe ==
    \A r \in Reqs : req[r].pc # "idle" => auth = "resolved"

----------------------------------------------------------------------------
\* the log entries of request r with a given operation and outcome
Calls(r, op, out) ==
    {e \in 1..Len(req[r].log) : req[r].log[e].op = op /\ req[r].log[e].out = out}

\* the call op on the j-th file of request r returned successfully
CallOk(r, op, j) ==
    \E e \in 1..Len(req[r].log) : req[r].log[e] = [op |-> op, idx |-> j, out |-> "ok"]

\* C6: the uploaded list has one entry per file processed so far, in the
\* order of the files: entry j carries the name of file j and the identifier
\* of the object created for file j; a success response carries one entry
\* per submitted file, and a request with a rejected create or metadata
\* fetch never gets a success response.
C6_OneResultPerFileInOrder ==
    \A r \in Reqs :
        /\ Len(req[r].uploaded) = Cardinality(Calls(r, "get", "ok"))
        /\ \A j \in 1..Len(req[r].uploaded) :
               /\ req[r].uploaded[j].name = req[r].files[j].originalname
               /\ \E o \in ObjectsBy(r) :
                      /\ driveFiles[o].idx = j
                      /\ driveFiles[o].id = req[r].uploaded[j].id
        /\ req[r].res.success =>
               /\ req[r].res.uploaded = req[r].uploaded
               /\ Len(req[r].res.uploaded) = Len(req[r].files)
        /\ (Calls(r, "create", "fail") # {} \/ Calls(r, "get", "fail") # {}) =>
               ~req[r].res.success

\* a two-file request got its success response after the other request had
\* created an object in between
C6_Witness ==
    \E r \in Reqs :
        /\ req[r].res.success
        /\ Len(req[r].files) = 2
        /\ req[r].res.uploaded[1].id # "id1"

\* the text of a file count
DecimalText(n) ==
    CASE n = 1 -> "1" [] n = 2 -> "2" [] n = 3 -> "3" [] n = 4 -> "4" [] n = 5 -> "5"
      [] n = 6 -> "6" [] n = 7 -> "7" [] n = 8 -> "8" [] n = 9 -> "9" [] n = 10 -> "10"

\* the first k texts of a sequence, each two separated by " | "
RECURSIVE JoinedUpTo(_, _)
JoinedUpTo(texts, k) ==
    IF k = 0 THEN ""
    ELSE IF k = 1 THEN texts[1]
    ELSE JoinedUpTo(texts, k - 1) \o " | " \o texts[k]

\* C7: a request whose n files all succeeded issues exactly one append, and
\* a request with a success response has exactly one row in the sheet: the
\* 7 cells timestamp, firstName, lastName, phone, n as text, the names and
\* the links of its files joined by " | " in upload order.
C7_OneRowOfSevenCells ==
    \A r \in Reqs :
        /\ (req[r].pc \in {"append", "done"} /\ req[r].uploaded # <<>>
              /\ Len(req[r].uploaded) = Len(req[r].files)) =>
               Cardinality({e \in 1..Len(req[r].log) : req[r].log[e].op = "append"}) = 1
        /\ req[r].res.success =>
               /\ Cardinality(RowsBy(r)) = 1
               /\ \A k \in RowsBy(r) :
                    LET v == sheetRows[k].values
                        n == Len(req[r].files)
                    IN  /\ Len(v) = 7
                        /\ v[1] \in Timestamps
                        /\ v[2] = req[r].body.firstName
                        /\ v[3] = req[r].body.lastName
                        /\ v[4] = req[r].body.phone
                        /\ v[5] = DecimalText(n)
                        /\ v[6] = JoinedUpTo([j \in 1..n |-> req[r].files[j].originalname], n)
                        /\ v[7] = JoinedUpTo([j \in 1..n |-> req[r].res.uploaded[j].link], n)
                        /\ n = 2 => v[5] = "2" /\ v[6] = "img1.png | img2.png"

\* a two-file request succeeded and its row is in the sheet
C7_Witness ==
    \E r \in Reqs :
        /\ req[r].res.success
        /\ Len(req[r].files) = 2
        /\ RowsBy(r) # {}

\* C8: if the append is rejected after every file was uploaded, the request
\* ends with a 500 failure response, never a success response, no row is
\* added, and the objects created for its files are still in Drive.
C8_AppendFailureIs500 ==
    \A r \in Reqs :
        Calls(r, "append", "fail") # {} =>
            /\ req[r].pc = "done"
            /\ req[r].res.sent /\ req[r].res.json
            /\ ~req[r].res.success /\ req[r].res.status = 500
            /\ RowsBy(r) = {}
            /\ \A j \in 1..Len(req[r].files) :
                   \E o \in ObjectsBy(r) :
                       /\ driveFiles[o].idx = j
                       /\ driveFiles[o].name = req[r].files[j].originalname

\* the append of a two-file request was rejected
C8_Witness ==
    \E r \in Reqs : Calls(r, "append", "fail") # {} /\ Len(req[r].files) = 2

\* C9: a rejected permission call never fails the request: every file whose
\* create and metadata fetch succeeded is in the uploaded list with a
\* non-empty link, the view link or the direct-access URL of its
\* identifier; and a request all of whose create, fetch and append calls
\* succeeded gets the success response, whatever its permission calls did.
C9_PermissionFailureIsHarmless ==
    \A r \in Reqs :
        /\ \A j \in 1..Len(req[r].files) :
               (CallOk(r, "create", j) /\ CallOk(r, "get", j)) =>
                   /\ j <= Len(req[r].uploaded)
                   /\ req[r].uploaded[j].id # ""
                   /\ req[r].uploaded[j].link # ""
                   /\ req[r].uploaded[j].link \in
                        {ViewLinkOf(req[r].uploaded[j].id),
                         "https://drive.google.com/uc?id=" \o req[r].uploaded[j].id}
        /\ (/\ req[r].pc = "done"
            /\ req[r].log # <<>>
            /\ \A e \in 1..Len(req[r].log) :
                   req[r].log[e].op # "perm" => req[r].log[e].out = "ok") =>
               /\ req[r].res.success
               /\ Len(req[r].res.uploaded) = Len(req[r].files)

\* a request succeeded although one of its permission calls was rejected
C9_Witness ==
    \E r \in Reqs : req[r].res.success /\ Calls(r, "perm", "fail") # {}

\* C10: a submission with 11 or more files gets the structured failure
\* response of the "too many files" check (JSON, success false, status 400,
\* that check's message), and no external call is issued.
\* Fails on the code: multer rejects the request before the handler runs,
\* and Express answers 500 with a body that is not the handler's JSON.
C10_TooManyFilesStructured400 ==
    \A r \in Reqs :
        (req[r].res.sent /\ Len(req[r].files) >= 11) =>
            /\ req[r].res.json
            /\ ~req[r].res.success
            /\ req[r].res.status = 400
            /\ req[r].res.error = ErrTooMany
            /\ NoExternalEffect(r)

----------------------------------------------------------------------------
\* C11: every failure response is the structured object with success false
\* and a non-empty error message, its status is 400 exactly when the request
\* breaks a precondition and 500 exactly when it fails in processing; every
\* success response has success true.
\* Fails on the code: a submission over the file-count limit (or with one
\* file over 100 MiB) is rejected by multer and answered 500 without the
\* structured body (the defect of C10).
C11_FailureShapeAndStatus ==
    \A r \in Reqs :
        req[r].res.sent =>
            /\ req[r].res.json
            /\ req[r].res.status = 200 => req[r].res.success
            /\ ~req[r].res.success =>
                   /\ req[r].res.error # ""
                   /\ req[r].res.status \in {400, 500}
                   /\ req[r].res.status = 400 <=> BreaksPrecondition(r)
                   /\ req[r].res.status = 500 <=> ~BreaksPrecondition(r)

\* C12: no object is ever removed from Drive: the object created for a file
\* whose create call succeeded is still there at any later time, also after
\* a later create, metadata fetch or append of the request was rejected, and
\* Drive holds exactly the objects of the successful create calls.
C12_NoRollback ==
    /\ \A r \in Reqs : \A j \in 1..Len(req[r].files) :
           CallOk(r, "create", j) =>
               \E o \in ObjectsBy(r) :
                   /\ driveFiles[o].idx = j
                   /\ driveFiles[o].name = req[r].files[j].originalname
    /\ \A r \in Reqs : Cardinality(ObjectsBy(r)) = Cardinality(Calls(r, "create", "ok"))

\* a two-file request ended with a 500 response after the calls of its first
\* file had succeeded, and the object of the first file is in Drive
C12_Witness ==
    \E r \in Reqs :
        /\ req[r].res.sent /\ req[r].res.status = 500
        /\ Len(req[r].files) = 2
        /\ CallOk(r, "create", 1) /\ CallOk(r, "get", 1)
        /\ \E o \in ObjectsBy(r) : driveFiles[o].idx = 1

\* C13: two requests that both succeed are independent, whatever the
\* interleaving and even with identical payloads: each has its own objects
\* (one per file, none shared) and its own single row; the response of each
\* lists the objects of its own files in its own order, and its row joins
\* its own names and links.
C13_RequestsIndependent ==
    \A r1 \in Reqs : \A r2 \in Reqs \ {r1} :
        (req[r1].res.success /\ req[r2].res.success) =>
            /\ Cardinality(ObjectsBy(r1)) = Len(req[r1].files)
            /\ Cardinality(RowsBy(r1)) = 1
            /\ RowsBy(r1) \cap RowsBy(r2) = {}
            /\ Len(req[r1].res.uploaded) = Len(req[r1].files)
            /\ \A j \in 1..Len(req[r1].res.uploaded) :
                   /\ \E o \in ObjectsBy(r1) :
                          /\ driveFiles[o].idx = j
                          /\ driveFiles[o].id = req[r1].res.uploaded[j].id
                   /\ \A o \in ObjectsBy(r2) :
                          driveFiles[o].id # req[r1].res.uploaded[j].id
                   /\ req[r1].res.uploaded[j].name = req[r1].files[j].originalname
            /\ \A k \in RowsBy(r1) :
                   /\ sheetRows[k].values[6] =
                        JoinedUpTo([j \in 1..Len(req[r1].files) |->
                                      req[r1].files[j].originalname], Len(req[r1].files))
                   /\ sheetRows[k].values[7] =
                        JoinedUpTo([j \in 1..Len(req[r1].files) |->
                                      req[r1].res.uploaded[j].link], Len(req[r1].files))

\* two requests with the same payload ran interleaved (the object of the
\* first was created first, the row of the second was appended first) and
\* both succeeded
C13_Witness ==
    /\ req[1].res.success /\ req[2].res.success
    /\ req[1].body = req[2].body
    /\ Len(req[1].files) = Len(req[2].files)
    /\ \A j \in 1..Len(req[1].files) :
           /\ req[1].files[j].originalname = req[2].files[j].originalname
           /\ req[1].files[j].size = req[2].files[j].size
    /\ Len(sheetRows) = 2 /\ sheetRows[1].by = 2
    /\ driveFiles[1].by = 1

\* C14: provided every call a handler awaits eventually resolves or rejects,
\* every request that reaches the handler eventually gets a response, and a
\* response once sent is never replaced by another one.
C14_ExactlyOneResponse ==
    /\ \A r \in Reqs : req[r].entered ~> req[r].res.sent
    /\ [][\A r \in Reqs : req[r].res.sent => req'[r].res = req[r].res]_vars

\* a request that reached the handler and waited for external calls has got
\* its response
C14_Witness ==
    \E r \in Reqs :
        /\ req[r].entered /\ req[r].res.sent /\ req[r].res.by = "handler"
        /\ Len(req[r].log) >= 4

\* C15: the process never listens (and so accepts no request) when
\* DRIVE_FOLDER_ID or SHEETS_ID is absent, or when there is neither an inline
\* GOOGLE_SERVICE_ACCOUNT nor a credential file; when the inline credential
\* is present it is the one used, never the credential file.
C15_RefusesToStart ==
    /\ (\/ ~env.folder
        \/ ~env.sheets
        \/ (env.inline = "absent" /\ ~env.credFile)) =>
           /\ proc # "listening"
           /\ googleAuth = "none" /\ auth = "none"
           /\ \A r \in Reqs : req[r] = IdleReq
    /\ env.inline # "absent" => googleAuth # "file"
    /\ (env.inline = "valid" /\ proc = "listening") => googleAuth = "inline"

\* the process has exited with both identifiers set and no credential of
\* either kind
C15_Witness ==
    /\ proc = "exited"
    /\ env.folder /\ env.sheets
    /\ env.inline = "absent" /\ ~env.credFile

\* the inline credential was used although a credential file exists as well
C15_WitnessPrecedence ==
    /\ proc = "listening" /\ googleAuth = "inline" /\ env.credFile

\* the message of the first precondition a request violates, taking the
\* preconditions in the order count >= 1, count <= 10, total size <= 100 MiB,
\* all three text fields present ("" when it violates none)
FirstViolated(r) ==
    IF Len(req[r].files) = 0 THEN ErrNoFiles
    ELSE IF Len(req[r].files) > 10 THEN ErrTooMany
    ELSE IF TotalBytes(r) > 100 * MiB THEN ErrTooLarge
    ELSE IF MissingField(r) THEN ErrMissing
    ELSE ""

\* C16: a request that violates one or more preconditions is answered 400
\* with the message of the first violated check in the order count >= 1,
\* count <= 10, total size <= 100 MiB, all three text fields present; no
\* later check shows (only the last check releases the temporary files).
\* Fails on the code: when the first violated check is the count limit, or
\* the size limit through a single file over 100 MiB, multer answers before
\* any check of the handler runs (the defect of C10).
C16_FirstViolatedCheckReported ==
    \A r \in Reqs :
        (req[r].res.sent /\ BreaksPrecondition(r)) =>
            /\ req[r].res.status = 400
            /\ req[r].res.error = FirstViolated(r)
            /\ FirstViolated(r) # ErrMissing =>
                   PathsOf(req[r].files) \cap unlinked = {}

\* C17: the files of a request are processed one at a time in input order:
\* at most one external call of a request is in flight, and the create call
\* for file j+1 is issued only after the create of file j resolved, its
\* permission call settled (either way), its metadata fetch resolved and an
\* unlink of its temporary file was attempted.
C17_OneFileAtATime ==
    \A r \in Reqs :
        LET lg == req[r].log
        IN  /\ \A e \in 1..Len(lg) : lg[e].out = "pending" => e = Len(lg)
            /\ \A e \in 1..Len(lg) :
                   lg[e].op = "create" =>
                       IF lg[e].idx = 1
                         THEN e = 1
                         ELSE /\ e > 3
                              /\ lg[e-3] = [op |-> "create", idx |-> lg[e].idx - 1, out |-> "ok"]
                              /\ lg[e-2].op = "perm"
                              /\ lg[e-2].idx = lg[e].idx - 1
                              /\ lg[e-2].out \in {"ok", "fail"}
                              /\ lg[e-1] = [op |-> "get", idx |-> lg[e].idx - 1, out |-> "ok"]
                              /\ req[r].files[lg[e].idx - 1].path \in unlinked

\* the create call for the second file of a request is in flight
C17_Witness ==
    \E r \in Reqs :
        /\ req[r].pc = "create" /\ req[r].i = 2
        /\ req[r].log[Len(req[r].log)] = [op |-> "create", idx |-> 2, out |-> "pending"]
        /\ req[r].files[1].path \in unlinked
        /\ req[r].files[2].path \notin unlinked

\* C18: at most one row is ever appended for a request; a request answered
\* with a failure has no row; a request answered with success has its row
\* (hence, once answered, a request has a row exactly when the answer is
\* success).
C18_RowIffSuccess ==
    \A r \in Reqs :
        /\ Cardinality(RowsBy(r)) <= 1
        /\ req[r].res.sent =>
               (req[r].res.success <=> Cardinality(RowsBy(r)) = 1)

\* one request was answered 500 after its append was rejected and has no
\* row, while another was answered with success and has its row
C18_Witness ==
    \E r1 \in Reqs : \E r2 \in Reqs \ {r1} :
        /\ req[r1].res.sent /\ req[r1].res.status = 500
        /\ Calls(r1, "append", "fail") # {}
        /\ RowsBy(r1) = {}
        /\ req[r2].res.success
        /\ Cardinality(RowsBy(r2)) = 1

\* an external call of request r other than a permission call was rejected
UpstreamFailed(r) ==
    Calls(r, "create", "fail") \cup Calls(r, "get", "fail") \cup Calls(r, "append", "fail") # {}

\* C19: the response of the handler is fixed by the submission and by the
\* outcomes of the external calls alone, whether the unlinks succeed or
\* fail: 400 with the message of the violated precondition, else 500 when
\* an upstream call was rejected (or the clients were not there yet), else
\* success with one entry per file; and on the paths that clean up (success,
\* missing fields, error path) an unlink was attempted on every file of the
\* request, also after an earlier unlink failed.
C19_UnlinkFailureChangesNothing ==
    \A r \in Reqs :
        HandlerResponded(r) =>
            /\ IF FirstViolated(r) # ""
                 THEN req[r].res = JsonFail(400, FirstViolated(r))
               ELSE IF UpstreamFailed(r) \/ req[r].log = <<>>
                 THEN /\ req[r].res.json /\ ~req[r].res.success
                      /\ req[r].res.status = 500
                      /\ req[r].res.error # ""
               ELSE /\ req[r].res = JsonOk(req[r].uploaded)
                    /\ Len(req[r].uploaded) = Len(req[r].files)
            /\ (req[r].res.status \in {200, 500} \/ FirstViolated(r) = ErrMissing) =>
                   PathsOf(req[r].files) \subseteq unlinked

\* a two-file request was answered with success although the unlink of its
\* first file failed (the file is still on disk); the second file was
\* unlinked all the same
C19_Witness ==
    \E r \in Reqs :
        /\ HandlerResponded(r) /\ req[r].res.success
        /\ Len(req[r].files) = 2
        /\ req[r].files[1].path \in fs \cap unlinked
        /\ req[r].files[2].path \in unlinked \ fs

\* a request was answered 500 after a rejected call while a file of it,
\* which the error path tried to unlink, is still on disk
C19_WitnessErrorPath ==
    \E r \in Reqs :
        /\ HandlerResponded(r) /\ req[r].res.status = 500
        /\ UpstreamFailed(r)
        /\ PathsOf(req[r].files) \cap fs # {}

====
